---- MODULE Spec2Model ----
(***************************************************************************)
(* Model of nf_conntrack_ssdp.c: the netfilter connection tracking helper  *)
(* for UPnP SSDP.  ssdp_help is modelled statement by statement, one       *)
(* action per statement group, for each packet-processing context; the     *)
(* conntrack engine and the inet device subsystem are the environment.     *)
(***************************************************************************)
EXTENDS Integers, Sequences, FiniteSets, TLC

(***************************************************************************)
(* Bounds of the model.                                                    *)
(***************************************************************************)
\* longest dev->ifa_list drawn in Init
MaxIfa == 2
\* number of packet-processing contexts (CPUs) of the concurrent specification
NumCtx == 2

(***************************************************************************)
(* Program constants.                                                      *)
(***************************************************************************)
\* a 32-bit word is the tuple of its four bytes in memory order; on the
\* little-endian build modelled here the least significant byte comes first
Word32(b3, b2, b1, b0) == <<b0, b1, b2, b3>>
Zero32 == Word32(0, 0, 0, 0)
\* 0xeffffffa: 239.255.255.250 in host byte order
SSDP_MCAST_ADDR == Word32(239, 255, 255, 250)
SSDP_UDP_PORT == 1900
\* the string literal "M-SEARCH" with its terminating NUL
SSDP_M_SEARCH == <<77, 45, 83, 69, 65, 82, 67, 72, 0>>
SSDP_M_SEARCH_SIZE == Len(SSDP_M_SEARCH) - 1
\* sizeof(struct udphdr), and the offset of the UDP header in the packets drawn
sizeof_udphdr == 8
protoff == 20
\* the value stored in expect->mask.src.u.udp.port
PORT_MASK == 65535
\* the null pointer
NULL == << >>
NF_ACCEPT == "NF_ACCEPT"
NF_DROP == "NF_DROP"
IPPROTO_UDP == "IPPROTO_UDP"
NF_CT_EXPECT_CLASS_DEFAULT == "NF_CT_EXPECT_CLASS_DEFAULT"
\* ssdp_policy
\* (variant: the policy allows two expectations per flow)
max_expected_two == 1 + 1
max_expected == 1
timeout == 1

(***************************************************************************)
(* Bitwise arithmetic on bytes, 16-bit and 32-bit words.                   *)
(***************************************************************************)
RECURSIVE AndBits(_, _)
AndBits(a, b) ==
    IF a = 0 \/ b = 0 THEN 0
    ELSE (a % 2) * (b % 2) + 2 * AndBits(a \div 2, b \div 2)

RECURSIVE XorBits(_, _)
XorBits(a, b) ==
    IF a = 0 THEN b
    ELSE IF b = 0 THEN a
    ELSE ((a + b) % 2) + 2 * XorBits(a \div 2, b \div 2)

\* & and ^ on 4-bit values, tabulated
NibbleAnd == [a \in 0..15, b \in 0..15 |-> AndBits(a, b)]
NibbleXor == [a \in 0..15, b \in 0..15 |-> XorBits(a, b)]

\* & and ^ on bytes
ByteAnd(a, b) == NibbleAnd[a \div 16, b \div 16] * 16 + NibbleAnd[a % 16, b % 16]
ByteXor(a, b) == NibbleXor[a \div 16, b \div 16] * 16 + NibbleXor[a % 16, b % 16]

\* & and ^ on 16-bit values
And16(a, b) == ByteAnd(a \div 256, b \div 256) * 256 + ByteAnd(a % 256, b % 256)
Xor16(a, b) == ByteXor(a \div 256, b \div 256) * 256 + ByteXor(a % 256, b % 256)

\* & and ^ on 32-bit words
And32(x, y) == <<ByteAnd(x[1], y[1]), ByteAnd(x[2], y[2]),
                 ByteAnd(x[3], y[3]), ByteAnd(x[4], y[4])>>
Xor32(x, y) == <<ByteXor(x[1], y[1]), ByteXor(x[2], y[2]),
                 ByteXor(x[3], y[3]), ByteXor(x[4], y[4])>>

\* cpu_to_be32 / cpu_to_be16 on a little-endian build: a byte swap
cpu_to_be32(x) == <<x[4], x[3], x[2], x[1]>>

cpu_to_be16(x) == (x % 256) * 256 + ((x \div 256) % 256)

\* the __be32 of the dotted quad a.b.c.d: its bytes in wire order
IP(a, b, c, d) == cpu_to_be32(Word32(a, b, c, d))

(***************************************************************************)
(* The packets, flows and interface configurations drawn as inputs.        *)
(***************************************************************************)
HostA == IP(192, 168, 1, 50)
HostB == IP(10, 0, 0, 1)
Neighbour == IP(192, 168, 1, 77)
Outsider == IP(8, 8, 8, 8)
Gateway == IP(192, 168, 1, 1)
NatAddr == IP(192, 168, 1, 200)
Mask24 == IP(255, 255, 255, 0)
Mask0 == IP(0, 0, 0, 0)
PortA == cpu_to_be16(50000)
PortNat == cpu_to_be16(61000)
PortEphemeral == cpu_to_be16(49152)

Tuple(sip, sport, dip, dport) ==
    [src |-> [ip |-> sip, port |-> sport],
     dst |-> [ip |-> dip, port |-> dport, protonum |-> IPPROTO_UDP]]

\* nf_ct_invert_tuple: the reply direction of a flow that is not NATed
Invert(t) == Tuple(t.dst.ip, t.dst.port, t.src.ip, t.src.port)

\* struct nf_conn: tuplehash[IP_CT_DIR_ORIGINAL] and tuplehash[IP_CT_DIR_REPLY].
\* The engine hands ssdp_help only flows of its helper signature (UDP, port 1900).
Conn(id, orig, reply) == [id |-> id, orig |-> orig, reply |-> reply]

Flows ==
    LET mc == cpu_to_be32(SSDP_MCAST_ADDR)
        pt == cpu_to_be16(SSDP_UDP_PORT)
        qa == Tuple(HostA, PortA, mc, pt)
        qb == Tuple(HostB, PortA, mc, pt)
        qu == Tuple(HostA, PortA, Gateway, pt)
    IN { Conn("ctA", qa, Invert(qa)),
         Conn("ctB", qb, Invert(qb)),
         Conn("ctU", qu, Invert(qu)),
         \* a source-NATed flow: the reply is addressed to the NAT address
         Conn("ctN", qa, Tuple(mc, pt, NatAddr, PortNat)) }

Payloads ==
    { <<77, 45, 83, 69, 65, 82, 67, 72>>,          \* "M-SEARCH"
      <<77, 45, 83, 69, 65, 82, 67, 72, 32>>,      \* "M-SEARCH "
      <<77, 45, 83, 69, 65, 82, 67>>,              \* "M-SEARC"
      <<77, 45, 83, 69, 65, 82, 67, 88>>,          \* "M-SEARCX"
      <<78, 79, 84, 73, 70, 89, 32, 42, 32>>,      \* "NOTIFY * "
      << >> }

\* struct sk_buff: the UDP payload follows the IP and UDP headers
Skb(payload) ==
    [len |-> protoff + sizeof_udphdr + Len(payload), payload |-> payload]

Packets == { [ct |-> f, skb |-> Skb(d)] : f \in Flows, d \in Payloads }

\* struct in_ifaddr
IfaEntries ==
    { [ifa_local |-> HostA, ifa_mask |-> Mask24],
      [ifa_local |-> HostA, ifa_mask |-> Mask0],
      [ifa_local |-> HostB, ifa_mask |-> Mask24] }

SeqsUpTo(S, n) == UNION { [1..k -> S] : k \in 0..n }

IfaLists == SeqsUpTo(IfaEntries, MaxIfa)

Ctx == 1..NumCtx


(***************************************************************************)
(* State.                                                                  *)
(***************************************************************************)
VARIABLES
    ip_ptr,         \* skb->dev->ip_ptr: NULL or the device's struct in_device
    in_dev,         \* the struct in_device: refcnt, ifa_list, freed
    expect_table,   \* the engine's expectations, oldest first
    traffic,        \* the kind of packets the engine hands to the helper
    cpu             \* per context: the locals of ssdp_help and ssdp_src_netmask

vars == <<ip_ptr, in_dev, expect_table, traffic, cpu>>

\* the address of the device's struct in_device
IN_DEV == [in_device |-> "eth0"]
\* no verdict yet
NONE == "none"

\* diagnostics printed with pr_warn
WARN_NO_ADDRESSES == "Device has no IPv4 addresses assigned"
WARN_NOT_ASSIGNED == "M-SEARCH source address not assigned to device"
WARN_ALLOC == "Memory allocation failure"

\* the locals of a context that is not inside ssdp_help
Locals ==
    [pc |-> "idle", skb |-> NULL, ct |-> NULL, tuple |-> NULL,
     \* locals the code assigns before it reads them; addr is the position
     \* of an entry in ifa_list, 0 the null pointer
     udpdata |-> NULL, netmask |-> Zero32, expect |-> NULL,
     dev |-> NULL, addr |-> 0, ret |-> Zero32,
     verdict |-> NONE, log |-> << >>,
     \* history of the invocation: whether the payload matcher passed,
     \* payload bytes made readable, in_dev_get/in_dev_put calls that took or
     \* dropped a reference, list reads made without holding one,
     \* expectations allocated, submitted, registered and released, and the
     \* master's live expectations when this one was submitted
     matched |-> FALSE, bytes_read |-> 0,
     gets |-> 0, puts |-> 0, stray_reads |-> 0,
     allocs |-> 0, submitted |-> 0, registered |-> 0, exp_puts |-> 0,
     live_before |-> 0]

Step(p, next) == cpu' = [cpu EXCEPT ![p] = next]

Return(l, v) == [l EXCEPT !.pc = "idle", !.verdict = v]

(***************************************************************************)
(* Kernel services used by the helper.                                     *)
(***************************************************************************)
\* (variant: no length check; the bytes past the end of the packet read as 0)
skb_header_pointer_unchecked(skb, offset, len) ==
    LET first == offset - (protoff + sizeof_udphdr)
    IN  [i \in 1..len |-> IF first + i <= Len(skb.payload)
                          THEN skb.payload[first + i] ELSE 0]

\* skb_header_pointer(skb, offset, len, buffer): the len bytes at offset, or
\* NULL when the packet is shorter than offset + len
skb_header_pointer(skb, offset, len) ==
    IF skb.len - offset < len THEN NULL
    ELSE LET first == offset - (protoff + sizeof_udphdr)
         IN  [i \in 1..len |-> skb.payload[first + i]]

\* memcmp(a, b, n): 0 when the first n bytes agree, else the sign of the first
\* difference
memcmp(a, b, n) ==
    LET diff == { i \in 1..n : a[i] # b[i] }
    IN  IF diff = {} THEN 0
        ELSE LET k == CHOOSE i \in diff : \A j \in diff : i <= j
             IN  IF a[k] < b[k] THEN -1 ELSE 1


\* (variant: the in_device is handed out without raising its count)
in_dev_get_noref(ptr, d) == d

\* in_dev_get(skb->dev): the device's in_device with its count raised, or NULL
in_dev_get(ptr, d) ==
    IF ptr = NULL THEN d ELSE [d EXCEPT !.refcnt = @ + 1]

\* in_dev_put(dev): drops a reference; the last one frees the in_device
in_dev_put(d) ==
    [d EXCEPT !.refcnt = @ - 1, !.freed = (d.refcnt = 1)]

\* the entry at position i of the list, as a reader sees it: once the
\* in_device is freed the memory holds anything
ifa_seen(d, i) ==
    IF d.freed THEN IfaEntries
    ELSE IF i \in 1..Len(d.ifa_list) THEN {d.ifa_list[i]} ELSE {}

\* dev->ifa_list and addr->ifa_next: the position of the first / next entry
ifa_first(d) ==
    IF d.freed THEN 0..1 ELSE IF Len(d.ifa_list) > 0 THEN {1} ELSE {0}

ifa_next(d, i) ==
    IF d.freed THEN (IF i <= MaxIfa THEN {0, i + 1} ELSE {0})
    ELSE IF i < Len(d.ifa_list) THEN {i + 1} ELSE {0}

(***************************************************************************)
(* ssdp_help, lines 60-115, and ssdp_src_netmask, lines 30-58.             *)
(***************************************************************************)
\* ssdp_policy, lines 117-121
ssdp_policy == [max_expected |-> max_expected, timeout |-> timeout, name |-> "ssdp"]

\* ssdp_helper, lines 123-131
ssdp_helper ==
    [name |-> "ssdp",
     tuple |-> [src |-> [port |-> cpu_to_be16(SSDP_UDP_PORT)],
                dst |-> [protonum |-> IPPROTO_UDP]],
     expect_policy |-> ssdp_policy]

\* the packets of the flows the engine has bound to ssdp_helper
Workload ==
    { pkt \in Packets :
        /\ pkt.ct.reply.src.port = ssdp_helper.tuple.src.port
        /\ pkt.ct.orig.dst.protonum = ssdp_helper.tuple.dst.protonum }

\* the packets that arrive: any of the workload, or only the 8-byte queries
\* of two flows
Arrivals(kind) ==
    IF kind = "mixed" THEN Workload
    ELSE { pkt \in Workload :
             /\ pkt.ct.id \in {"ctA", "ctB"}
             /\ Len(pkt.skb.payload) = SSDP_M_SEARCH_SIZE
             /\ pkt.skb.payload[SSDP_M_SEARCH_SIZE] = SSDP_M_SEARCH[SSDP_M_SEARCH_SIZE] }

\* (variant: the classifier tests the destination port, not the address)
is_ssdp_port(tuple) == tuple.dst.port = cpu_to_be16(SSDP_UDP_PORT)

\* line 76: the classifier's test
is_ssdp_mcast(tuple) == tuple.dst.ip = cpu_to_be32(SSDP_MCAST_ADDR)

\* lines 60-74: the engine calls the helper with a packet of a tracked flow
ssdp_help_entry(p) ==
    /\ cpu[p].pc = "idle"
    /\ \E pkt \in Arrivals(traffic) :
         Step(p, [Locals EXCEPT !.pc = "classify", !.skb = pkt.skb,
                                !.ct = pkt.ct, !.tuple = pkt.ct.orig])
    /\ UNCHANGED <<ip_ptr, in_dev, expect_table, traffic>>

\* (variant: the interface is consulted right after the destination test,
\* before the payload is looked at)
ssdp_help_classify_resolve(p) ==
    LET l == cpu[p] IN
    /\ l.pc = "classify"
    /\ IF ~is_ssdp_mcast(l.tuple)
       THEN Step(p, Return(l, NF_ACCEPT))
       ELSE Step(p, [l EXCEPT !.pc = "in_dev_get"])
    /\ UNCHANGED <<ip_ptr, in_dev, expect_table, traffic>>

\* lines 76-79
ssdp_help_classify(p) ==
    LET l == cpu[p] IN
    /\ l.pc = "classify"
    /\ IF ~is_ssdp_mcast(l.tuple)
       THEN Step(p, Return(l, NF_ACCEPT))
       ELSE Step(p, [l EXCEPT !.pc = "header_pointer"])
    /\ UNCHANGED <<ip_ptr, in_dev, expect_table, traffic>>

\* lines 81-86
ssdp_help_header_pointer(p) ==
    LET l == cpu[p]
        udpdata == skb_header_pointer(l.skb, protoff + sizeof_udphdr,
                                      SSDP_M_SEARCH_SIZE)
    IN
    /\ l.pc = "header_pointer"
    /\ IF udpdata = NULL
       THEN Step(p, Return([l EXCEPT !.udpdata = udpdata], NF_ACCEPT))
       ELSE Step(p, [l EXCEPT !.pc = "memcmp", !.udpdata = udpdata,
                              !.bytes_read = Len(udpdata)])
    /\ UNCHANGED <<ip_ptr, in_dev, expect_table, traffic>>

\* lines 88-91
ssdp_help_memcmp(p) ==
    LET l == cpu[p] IN
    /\ l.pc = "memcmp"
    /\ IF memcmp(l.udpdata, SSDP_M_SEARCH, SSDP_M_SEARCH_SIZE) # 0
       THEN Step(p, Return(l, NF_ACCEPT))
       ELSE Step(p, [l EXCEPT !.pc = "in_dev_get", !.matched = TRUE])
    /\ UNCHANGED <<ip_ptr, in_dev, expect_table, traffic>>

\* line 93 calls ssdp_src_netmask; lines 35-40
ssdp_src_netmask_get(p) ==
    LET l == cpu[p] IN
    /\ l.pc = "in_dev_get"
    /\ in_dev' = in_dev_get(ip_ptr, in_dev)
    /\ IF ip_ptr = NULL
       THEN Step(p, [l EXCEPT !.pc = "netmask", !.dev = NULL, !.ret = Zero32,
                              !.netmask = Zero32,
                              !.log = Append(@, WARN_NO_ADDRESSES)])
       ELSE Step(p, [l EXCEPT !.pc = "ifa_list", !.dev = ip_ptr, !.ret = Zero32,
                              !.gets = @ + 1])
    /\ UNCHANGED <<ip_ptr, expect_table, traffic>>


\* whether the context holds a reference to the in_device
holds_in_dev(l) == l.gets > l.puts

\* line 42, loop initialisation: addr = dev->ifa_list
ssdp_src_netmask_ifa_list(p) ==
    LET l == cpu[p] IN
    /\ l.pc = "ifa_list"
    /\ \E first \in ifa_first(in_dev) :
         Step(p, [l EXCEPT !.pc = "loop", !.addr = first,
                           !.stray_reads = IF holds_in_dev(l) THEN @ ELSE 1])
    /\ UNCHANGED <<ip_ptr, in_dev, expect_table, traffic>>

\* (variant: the loop has no break, the last entry for the address decides)
ssdp_src_netmask_loop_nobreak(p) ==
    LET l == cpu[p] IN
    /\ l.pc = "loop"
    /\ IF l.addr = 0
       THEN Step(p, [l EXCEPT !.pc = "check"])
       ELSE \E e \in ifa_seen(in_dev, l.addr) : \E next \in ifa_next(in_dev, l.addr) :
              LET r == [l EXCEPT !.stray_reads = IF holds_in_dev(l) THEN @ ELSE 1]
              IN  IF e.ifa_local = l.tuple.src.ip
                  THEN Step(p, [r EXCEPT !.addr = next, !.ret = e.ifa_mask])
                  ELSE Step(p, [r EXCEPT !.addr = next])
    /\ UNCHANGED <<ip_ptr, in_dev, expect_table, traffic>>

\* lines 42-49: the loop test and one pass of the body
ssdp_src_netmask_loop(p) ==
    LET l == cpu[p] IN
    /\ l.pc = "loop"
    /\ IF l.addr = 0
       THEN Step(p, [l EXCEPT !.pc = "check"])
       ELSE \E e \in ifa_seen(in_dev, l.addr) : \E next \in ifa_next(in_dev, l.addr) :
              LET r == [l EXCEPT !.stray_reads = IF holds_in_dev(l) THEN @ ELSE 1]
              IN  IF e.ifa_local = l.tuple.src.ip
                  THEN Step(p, [r EXCEPT !.pc = "check", !.ret = e.ifa_mask])
                  ELSE Step(p, [r EXCEPT !.addr = next])
    /\ UNCHANGED <<ip_ptr, in_dev, expect_table, traffic>>

\* (variant: the failure branch returns without in_dev_put)
ssdp_src_netmask_check_return(p) ==
    LET l == cpu[p] IN
    /\ l.pc = "check"
    /\ IF l.ret = Zero32
       THEN Step(p, [l EXCEPT !.pc = "netmask", !.netmask = l.ret,
                              !.log = Append(@, WARN_NOT_ASSIGNED)])
       ELSE Step(p, [l EXCEPT !.pc = "in_dev_put"])
    /\ UNCHANGED <<ip_ptr, in_dev, expect_table, traffic>>

\* (variant: the warning is printed when the loop ran off the list, not when
\* ret is 0)
ssdp_src_netmask_check_end(p) ==
    LET l == cpu[p] IN
    /\ l.pc = "check"
    /\ IF l.addr = 0
       THEN Step(p, [l EXCEPT !.pc = "in_dev_put",
                              !.log = Append(@, WARN_NOT_ASSIGNED)])
       ELSE Step(p, [l EXCEPT !.pc = "in_dev_put"])
    /\ UNCHANGED <<ip_ptr, in_dev, expect_table, traffic>>

\* lines 51-54
ssdp_src_netmask_check(p) ==
    LET l == cpu[p] IN
    /\ l.pc = "check"
    /\ IF l.ret = Zero32
       THEN Step(p, [l EXCEPT !.pc = "in_dev_put",
                              !.log = Append(@, WARN_NOT_ASSIGNED)])
       ELSE Step(p, [l EXCEPT !.pc = "in_dev_put"])
    /\ UNCHANGED <<ip_ptr, in_dev, expect_table, traffic>>

\* lines 56-57, and the assignment of the result at line 93
ssdp_src_netmask_put(p) ==
    LET l == cpu[p] IN
    /\ l.pc = "in_dev_put"
    /\ in_dev' = in_dev_put(in_dev)
    /\ Step(p, [l EXCEPT !.pc = "netmask", !.puts = @ + 1, !.netmask = l.ret])
    /\ UNCHANGED <<ip_ptr, expect_table, traffic>>

\* (variant: a failed resolution accepts the packet without an expectation)
ssdp_help_netmask_accept(p) ==
    LET l == cpu[p] IN
    /\ l.pc = "netmask"
    /\ IF l.netmask = Zero32
       THEN Step(p, Return(l, NF_ACCEPT))
       ELSE Step(p, [l EXCEPT !.pc = "alloc"])
    /\ UNCHANGED <<ip_ptr, in_dev, expect_table, traffic>>

\* (variant: a mask of 0.0.0.0 is taken as a mask like any other)
ssdp_help_netmask_any(p) ==
    LET l == cpu[p] IN
    /\ l.pc = "netmask"
    /\ Step(p, [l EXCEPT !.pc = "alloc"])
    /\ UNCHANGED <<ip_ptr, in_dev, expect_table, traffic>>

\* lines 93-94
ssdp_help_netmask(p) ==
    LET l == cpu[p] IN
    /\ l.pc = "netmask"
    /\ IF l.netmask = Zero32
       THEN Step(p, Return(l, NF_DROP))
       ELSE Step(p, [l EXCEPT !.pc = "alloc"])
    /\ UNCHANGED <<ip_ptr, in_dev, expect_table, traffic>>

\* nf_ct_expect_alloc(ct): a fresh expectation of master ct, or NULL
nf_ct_expect_alloc(ct, ok) ==
    IF ok
    THEN [master |-> ct.id, tuple |-> NULL, mask |-> NULL, expectfn |-> NULL,
          flags |-> 0, class |-> "unset", helper |-> NULL]
    ELSE NULL

\* (variant: a failed allocation also removes the flow's expectations)
ssdp_help_alloc_flush(p) ==
    LET l == cpu[p] IN
    /\ l.pc = "alloc"
    /\ \E ok \in BOOLEAN :
         LET expect == nf_ct_expect_alloc(l.ct, ok) IN
         IF expect = NULL
         THEN /\ Step(p, Return([l EXCEPT !.expect = NULL,
                                          !.log = Append(@, WARN_ALLOC)], NF_DROP))
              /\ expect_table' = [expect_table EXCEPT ![l.ct.id] = << >>]
         ELSE /\ Step(p, [l EXCEPT !.pc = "build", !.expect = expect,
                                   !.allocs = @ + 1])
              /\ UNCHANGED expect_table
    /\ UNCHANGED <<ip_ptr, in_dev, traffic>>

\* lines 96-99
ssdp_help_alloc(p) ==
    LET l == cpu[p] IN
    /\ l.pc = "alloc"
    /\ \E ok \in BOOLEAN :
         LET expect == nf_ct_expect_alloc(l.ct, ok) IN
         IF expect = NULL
         THEN Step(p, Return([l EXCEPT !.expect = NULL,
                                       !.log = Append(@, WARN_ALLOC)], NF_DROP))
         ELSE Step(p, [l EXCEPT !.pc = "build", !.expect = expect,
                                !.allocs = @ + 1])
    /\ UNCHANGED <<ip_ptr, in_dev, expect_table, traffic>>

\* (variant: the source address of the reply tuple is left as it is)
expect_tuple_reply(ct) == ct.reply

\* (variant: the tuple is taken from the original direction)
expect_tuple_orig(ct) ==
    LET orig == ct.orig IN [orig EXCEPT !.src.ip = orig.dst.ip]

\* lines 101-102
expect_tuple(ct) ==
    LET reply == ct.reply IN [reply EXCEPT !.src.ip = reply.dst.ip]

\* (variant: the address mask is the host mask, not the resolved netmask)
expect_mask_host(netmask) ==
    [src |-> [ip |-> IP(255, 255, 255, 255), port |-> PORT_MASK]]

\* (variant: the port mask is left at the 0 of the memset)
expect_mask_anyport(netmask) == [src |-> [ip |-> netmask, port |-> 0]]

\* lines 103-105
expect_mask(netmask) == [src |-> [ip |-> netmask, port |-> PORT_MASK]]

\* lines 101-109
ssdp_help_build(p) ==
    LET l == cpu[p] IN
    /\ l.pc = "build"
    /\ Step(p, [l EXCEPT !.pc = "related",
                         !.expect = [@ EXCEPT !.tuple = expect_tuple(l.ct),
                                              !.mask = expect_mask(l.netmask),
                                              !.expectfn = NULL,
                                              !.flags = 0,
                                              !.class = NF_CT_EXPECT_CLASS_DEFAULT,
                                              !.helper = NULL]])
    /\ UNCHANGED <<ip_ptr, in_dev, expect_table, traffic>>


(***************************************************************************)
(* The conntrack engine's expectation table: for each master flow the list *)
(* of its live expectations, oldest first.                                 *)
(***************************************************************************)
Masters == { f.id : f \in Flows }

RemoveAt(seq, i) == SubSeq(seq, 1, i - 1) \o SubSeq(seq, i + 1, Len(seq))

\* the engine's count check: a master at its limit loses its oldest expectation
evict_oldest_expect(table, master) ==
    IF table[master] = << >> THEN table
    ELSE [table EXCEPT ![master] = Tail(@)]

\* nf_ct_expect_related(expect, 0): the engine inserts the expectation under
\* the helper's policy, or refuses it (a clash, a full table); returns the
\* error code and the table
nf_ct_expect_related(table, expect, refuse) ==
    LET limit == ssdp_helper.expect_policy.max_expected
        master == expect.master
        full == limit > 0 /\ Len(table[master]) >= limit
        room == IF full THEN evict_oldest_expect(table, master) ELSE table
    IN  IF refuse THEN [err |-> "EBUSY", table |-> table]
        ELSE IF limit > 0 /\ Len(room[master]) >= limit
        THEN [err |-> "EMFILE", table |-> table]
        ELSE [err |-> "OK", table |-> [room EXCEPT ![master] = Append(@, expect)]]

\* nf_ct_tuple_mask_cmp: a zero mask bit is don't care, a set bit must match;
\* the destination and the protocol are compared in full
nf_ct_tuple_mask_cmp(t, tuple, mask) ==
    /\ t.dst = tuple.dst
    /\ And32(Xor32(t.src.ip, tuple.src.ip), mask.src.ip) = Zero32
    /\ And16(Xor16(t.src.port, tuple.src.port), mask.src.port) = 0

\* nf_ct_find_expectation: the expectations a new flow's tuple matches
nf_ct_find_expectation(table, t) ==
    UNION { { <<m, i>> : i \in { k \in 1..Len(table[m]) :
                nf_ct_tuple_mask_cmp(t, table[m][k].tuple, table[m][k].mask) } } :
            m \in Masters }

\* line 111
ssdp_help_related(p) ==
    LET l == cpu[p] IN
    /\ l.pc = "related"
    /\ \E refuse \in BOOLEAN :
         LET r == nf_ct_expect_related(expect_table, l.expect, refuse) IN
         /\ expect_table' = r.table
         /\ Step(p, [l EXCEPT !.pc = "expect_put", !.submitted = @ + 1,
                              !.registered = IF r.err = "OK" THEN @ + 1 ELSE @,
                              !.live_before = Len(expect_table[l.expect.master])])
    /\ UNCHANGED <<ip_ptr, in_dev, traffic>>

\* (variant: the verdict follows the result of nf_ct_expect_related)
ssdp_help_put_result(p) ==
    LET l == cpu[p] IN
    /\ l.pc = "expect_put"
    /\ Step(p, Return([l EXCEPT !.exp_puts = @ + 1],
                      IF l.registered = 0 THEN NF_DROP ELSE NF_ACCEPT))
    /\ UNCHANGED <<ip_ptr, in_dev, expect_table, traffic>>

\* (variant: a query of a flow that already had a live expectation is
\* dropped)
ssdp_help_put_duplicate(p) ==
    LET l == cpu[p] IN
    /\ l.pc = "expect_put"
    /\ Step(p, Return([l EXCEPT !.exp_puts = @ + 1],
                      IF l.live_before > 0 THEN NF_DROP ELSE NF_ACCEPT))
    /\ UNCHANGED <<ip_ptr, in_dev, expect_table, traffic>>

\* (variant: the expectation is released only when the engine took it)
ssdp_help_put_leak(p) ==
    LET l == cpu[p] IN
    /\ l.pc = "expect_put"
    /\ Step(p, Return([l EXCEPT !.exp_puts = IF l.registered = 0 THEN @ ELSE @ + 1],
                      NF_ACCEPT))
    /\ UNCHANGED <<ip_ptr, in_dev, expect_table, traffic>>

\* lines 112-114
ssdp_help_put(p) ==
    LET l == cpu[p] IN
    /\ l.pc = "expect_put"
    /\ Step(p, Return([l EXCEPT !.exp_puts = @ + 1], NF_ACCEPT))
    /\ UNCHANGED <<ip_ptr, in_dev, expect_table, traffic>>

(***************************************************************************)
(* The environment.                                                        *)
(***************************************************************************)
\* the datagrams that may arrive as replies
Replies ==
    { Tuple(sip, sport, f.reply.dst.ip, f.reply.dst.port) :
        sip \in {Neighbour, Outsider},
        sport \in {cpu_to_be16(SSDP_UDP_PORT), PortEphemeral},
        f \in Flows }

\* the expectation's timer fires (ssdp_policy.timeout seconds after insertion)
engine_expire ==
    /\ \E m \in Masters : \E i \in 1..Len(expect_table[m]) :
         expect_table' = [expect_table EXCEPT ![m] = RemoveAt(@, i)]
    /\ UNCHANGED <<ip_ptr, in_dev, traffic, cpu>>

\* a datagram that matches an expectation becomes a related flow and uses
\* the expectation up (flags = 0: not permanent)
engine_reply ==
    /\ \E t \in Replies :
         \E e \in nf_ct_find_expectation(expect_table, t) :
           expect_table' = [expect_table EXCEPT ![e[1]] = RemoveAt(@, e[2])]
    /\ UNCHANGED <<ip_ptr, in_dev, traffic, cpu>>

\* the device loses its IPv4 configuration: the subsystem clears ip_ptr and
\* drops its own reference
inetdev_destroy ==
    /\ ip_ptr # NULL
    /\ ip_ptr' = NULL
    /\ in_dev' = in_dev_put(in_dev)
    /\ UNCHANGED <<expect_table, traffic, cpu>>

(***************************************************************************)
(* Specifications.                                                         *)
(***************************************************************************)
NoInDev == [refcnt |-> 0, ifa_list |-> << >>, freed |-> TRUE]

InitDevice(lists) ==
    \/ /\ ip_ptr = NULL
       /\ in_dev = NoInDev
    \/ /\ ip_ptr = IN_DEV
       /\ \E list \in lists : in_dev = [refcnt |-> 1, ifa_list |-> list, freed |-> FALSE]

\* one processing context, every packet and every interface configuration
Init ==
    /\ InitDevice(IfaLists)
    /\ expect_table = [m \in Masters |-> << >>]
    /\ traffic = "mixed"
    /\ cpu = [p \in Ctx |-> IF p = 1 THEN Locals ELSE [Locals EXCEPT !.pc = "offline"]]

Next ==
    \/ \E p \in Ctx : ssdp_help_entry(p)
    \/ \E p \in Ctx : ssdp_help_classify(p)
    \/ \E p \in Ctx : ssdp_help_header_pointer(p)
    \/ \E p \in Ctx : ssdp_help_memcmp(p)
    \/ \E p \in Ctx : ssdp_src_netmask_get(p)
    \/ \E p \in Ctx : ssdp_src_netmask_ifa_list(p)
    \/ \E p \in Ctx : ssdp_src_netmask_loop(p)
    \/ \E p \in Ctx : ssdp_src_netmask_check(p)
    \/ \E p \in Ctx : ssdp_src_netmask_put(p)
    \/ \E p \in Ctx : ssdp_help_netmask(p)
    \/ \E p \in Ctx : ssdp_help_alloc(p)
    \/ \E p \in Ctx : ssdp_help_build(p)
    \/ \E p \in Ctx : ssdp_help_related(p)
    \/ \E p \in Ctx : ssdp_help_put(p)
    \/ engine_expire
    \/ engine_reply
    \/ inetdev_destroy

Spec == Init /\ [][Next]_vars


\* every processing context, the queries of two flows, one interface
\* configuration
InitSMP ==
    /\ InitDevice({ <<[ifa_local |-> HostA, ifa_mask |-> Mask24]>> })
    /\ expect_table = [m \in Masters |-> << >>]
    /\ traffic = "queries"
    /\ cpu = [p \in Ctx |-> Locals]

SpecSMP == InitSMP /\ [][Next]_vars


(***************************************************************************)
(* Vocabulary of the properties.  The multicast group and the request      *)
(* method are written out as the bytes on the wire, independently of the   *)
(* code's macros.                                                          *)
(***************************************************************************)
MulticastGroup == <<239, 255, 255, 250>>
MSearchBytes == <<77, 45, 83, 69, 65, 82, 67, 72>>

\* ssdp_help has returned a verdict for the context's packet
Returned(l) == l.pc = "idle" /\ l.verdict # NONE

\* the context is inside ssdp_help or has returned from it
Handled(l) == l.pc \notin {"idle", "offline"} \/ Returned(l)

ToGroup(l) == l.tuple.dst.ip = MulticastGroup

BeginsMSearch(l) ==
    /\ Len(l.skb.payload) >= 8
    /\ SubSeq(l.skb.payload, 1, 8) = MSearchBytes

WellFormed(l) == ToGroup(l) /\ BeginsMSearch(l)

\* the positions of the interface's entries whose local address is a
LocalEntries(a) ==
    { i \in 1..Len(in_dev.ifa_list) : in_dev.ifa_list[i].ifa_local = a }

FirstLocalEntry(a) ==
    in_dev.ifa_list[CHOOSE i \in LocalEntries(a) : \A j \in LocalEntries(a) : i <= j]

FlowOf(id) == CHOOSE f \in Flows : f.id = id

\* the expectations in the engine's table
Registered ==
    UNION { { expect_table[m][i] : i \in 1..Len(expect_table[m]) } : m \in Masters }

\* the expectations ssdp_help has built: those in the table and those a
\* context holds after line 109
Built ==
    Registered \cup
    { cpu[p].expect : p \in { q \in Ctx : \/ cpu[q].pc \in {"related", "expect_put"}
                                         \/ (Returned(cpu[q]) /\ cpu[q].allocs = 1) } }

InSubnet(a, e) == And32(a, e.mask.src.ip) = And32(e.tuple.src.ip, e.mask.src.ip)

(***************************************************************************)
(* C1                                                                      *)
(***************************************************************************)
\* C1 as stated: a well-formed M-SEARCH query from S, received on an
\* interface whose list has an entry with local address S and mask M, is
\* accepted and exactly one expectation is created, with address mask M.
C1_AsStated ==
    \A p \in Ctx : LET l == cpu[p] IN
      (Returned(l) /\ WellFormed(l) /\ l.dev # NULL) =>
        \A i \in LocalEntries(l.tuple.src.ip) :
          /\ l.verdict = NF_ACCEPT
          /\ l.allocs = 1 /\ l.submitted = 1
          /\ l.expect # NULL /\ l.expect.mask.src.ip = in_dev.ifa_list[i].ifa_mask

\* C1 amended: when the first entry with local address S has a non-zero
\* mask M, the query is accepted and exactly one expectation is created,
\* with address mask M, unless the allocation of the expectation fails; it
\* is then dropped and none is created.
C1_FirstNonZeroMask ==
    \A p \in Ctx : LET l == cpu[p] IN
      (/\ Returned(l) /\ WellFormed(l) /\ l.dev # NULL
       /\ LocalEntries(l.tuple.src.ip) # {}
       /\ FirstLocalEntry(l.tuple.src.ip).ifa_mask # <<0, 0, 0, 0>>) =>
        IF l.allocs = 0
        THEN l.verdict = NF_DROP /\ l.submitted = 0 /\ l.log = <<WARN_ALLOC>>
        ELSE /\ l.verdict = NF_ACCEPT
             /\ l.allocs = 1 /\ l.submitted = 1
             /\ l.expect.mask.src.ip = FirstLocalEntry(l.tuple.src.ip).ifa_mask

C1_Witness ==
    \E p \in Ctx : LET l == cpu[p] IN
      /\ Returned(l) /\ WellFormed(l) /\ l.dev # NULL
      /\ l.tuple.src.ip = <<192, 168, 1, 50>>
      /\ LocalEntries(l.tuple.src.ip) # {}
      /\ FirstLocalEntry(l.tuple.src.ip).ifa_mask = <<255, 255, 255, 0>>
      /\ l.verdict = NF_ACCEPT /\ l.submitted = 1
      /\ l.expect.mask.src.ip = <<255, 255, 255, 0>>

(***************************************************************************)
(* C2                                                                      *)
(***************************************************************************)
\* C2 as stated: whatever the payload, a packet whose source address S is
\* no local address of the receiving interface is dropped and no
\* expectation is created.
C2_AsStated ==
    \A p \in Ctx : LET l == cpu[p] IN
      (Returned(l) /\ LocalEntries(l.tuple.src.ip) = {}) =>
        l.verdict = NF_DROP /\ l.allocs = 0 /\ l.submitted = 0

\* C2 amended: a packet that passes the classifier and the payload matcher
\* (sent to 239.255.255.250, payload beginning with "M-SEARCH") and whose
\* source address S is no local address of the receiving interface is
\* dropped and no expectation is created.
C2_WellFormedNoLocal ==
    \A p \in Ctx : LET l == cpu[p] IN
      (/\ Returned(l) /\ WellFormed(l)
       /\ (l.dev = NULL \/ LocalEntries(l.tuple.src.ip) = {})) =>
        l.verdict = NF_DROP /\ l.allocs = 0 /\ l.submitted = 0

C2_Witness ==
    \E p \in Ctx : LET l == cpu[p] IN
      /\ Returned(l) /\ WellFormed(l) /\ l.dev # NULL
      /\ l.tuple.src.ip = <<192, 168, 1, 50>>
      /\ in_dev.ifa_list = <<[ifa_local |-> <<10, 0, 0, 1>>,
                              ifa_mask |-> <<255, 255, 255, 0>>]>>
      /\ l.verdict = NF_DROP /\ l.allocs = 0

(***************************************************************************)
(* C3                                                                      *)
(***************************************************************************)
\* C3 as stated: the source address of every expectation built is the
\* original-direction destination address of the query flow.
C3_AsStated ==
    \A e \in Built : e.tuple.src.ip = FlowOf(e.master).orig.dst.ip

\* C3 amended: the source address of every expectation built is the
\* reply-direction destination address of the query flow, which is the
\* original-direction source address (the requester) unless the flow is
\* NATed; the other fields of the tuple are those of the reply direction.
C3_ReplyDestination ==
    \A e \in Built : LET f == FlowOf(e.master) IN
      /\ e.tuple.src.ip = f.reply.dst.ip
      /\ f.reply = Invert(f.orig) => e.tuple.src.ip = f.orig.src.ip
      /\ e.tuple.src.port = f.reply.src.port
      /\ e.tuple.dst = f.reply.dst

C3_Witness ==
    \E e \in Registered :
      /\ e.master = "ctN"
      /\ FlowOf(e.master).orig.src.ip = <<192, 168, 1, 50>>
      /\ FlowOf(e.master).orig.dst.ip = MulticastGroup
      /\ e.tuple.src.ip = <<192, 168, 1, 200>>

C5_OneLivePerFlow ==
    \A m \in Masters : Len(expect_table[m]) <= 1

C5_Witness ==
    \E p \in Ctx : LET l == cpu[p] IN
      /\ l.pc = "expect_put"
      /\ l.live_before = 1 /\ l.registered = 1
      /\ Len(expect_table[l.ct.id]) = 1


(***************************************************************************)
(* C6                                                                      *)
(***************************************************************************)
\* C6: a packet whose original-direction destination address is not
\* 239.255.255.250 is accepted by the classifier: ssdp_help goes no further,
\* creates no expectation and returns ACCEPT.
C6_OtherDestinationAccepted ==
    \A p \in Ctx : LET l == cpu[p] IN
      (Handled(l) /\ ~ToGroup(l)) =>
        /\ l.pc \in {"classify", "idle"}
        /\ Returned(l) => l.verdict = NF_ACCEPT
        /\ l.allocs = 0 /\ l.submitted = 0 /\ l.registered = 0
        /\ l.gets = 0 /\ l.bytes_read = 0 /\ l.log = << >>

C6_Witness ==
    \E p \in Ctx : LET l == cpu[p] IN
      /\ Returned(l) /\ BeginsMSearch(l)
      /\ l.tuple.dst.ip = <<192, 168, 1, 1>>
      /\ l.verdict = NF_ACCEPT /\ l.allocs = 0

(***************************************************************************)
(* C7                                                                      *)
(***************************************************************************)
\* C7: for a packet sent to the group, the payload matcher passes exactly
\* when the payload has at least 8 bytes of which the first 8 are
\* "M-SEARCH"; otherwise ssdp_help returns ACCEPT and creates no
\* expectation; and never is a byte made readable beyond the payload.
C7_PayloadMatcher ==
    \A p \in Ctx : LET l == cpu[p] IN
      Handled(l) =>
        /\ l.bytes_read <= Len(l.skb.payload)
        /\ l.matched => (ToGroup(l) /\ BeginsMSearch(l))
        /\ (Returned(l) /\ WellFormed(l)) => l.matched
        /\ (Returned(l) /\ ToGroup(l) /\ ~BeginsMSearch(l)) =>
             /\ l.verdict = NF_ACCEPT
             /\ l.allocs = 0 /\ l.submitted = 0 /\ l.registered = 0
             /\ l.gets = 0 /\ l.log = << >>

C7_Witness ==
    \E p \in Ctx : LET l == cpu[p] IN
      /\ Returned(l) /\ ToGroup(l)
      /\ l.skb.payload = <<77, 45, 83, 69, 65, 82, 67>>
      /\ ~l.matched /\ l.bytes_read = 0
      /\ l.verdict = NF_ACCEPT /\ l.allocs = 0

(***************************************************************************)
(* C8                                                                      *)
(***************************************************************************)
RECURSIVE HeldBy(_)
\* the references to the in_device held by the contexts 1..n
HeldBy(n) == IF n = 0 THEN 0 ELSE (cpu[n].gets - cpu[n].puts) + HeldBy(n - 1)

\* C8: on every exit path of ssdp_src_netmask the reference taken by
\* in_dev_get is released exactly once, none is released that was not taken,
\* the count of the in_device is then what it was before the call, and the
\* address list is read only while the reference is held.
C8_ReferenceBalanced ==
    /\ in_dev.refcnt = (IF ip_ptr # NULL THEN 1 ELSE 0) + HeldBy(NumCtx)
    /\ in_dev.freed <=> in_dev.refcnt = 0
    /\ \A p \in Ctx : LET l == cpu[p] IN
         /\ l.stray_reads = 0
         /\ holds_in_dev(l) <=> l.pc \in {"ifa_list", "loop", "check", "in_dev_put"}
         /\ l.pc \in {"netmask", "alloc", "build", "related", "expect_put"}
              => (l.gets = l.puts /\ l.gets = (IF l.dev = NULL THEN 0 ELSE 1))
         /\ Returned(l) =>
              /\ l.gets = l.puts
              /\ l.gets = (IF l.matched /\ l.dev # NULL THEN 1 ELSE 0)

\* the exit path of a failed search: reference taken, address not found,
\* reference released
C8_Witness ==
    \E p \in Ctx : LET l == cpu[p] IN
      /\ Returned(l) /\ l.matched /\ l.dev # NULL
      /\ l.log = <<WARN_NOT_ASSIGNED>>
      /\ l.gets = 1 /\ l.puts = 1
      /\ in_dev.refcnt = 1 /\ ip_ptr # NULL

(***************************************************************************)
(* C9                                                                      *)
(***************************************************************************)
\* the subnet resolver returned a mask: the builder stage was entered
BuilderEntered(l) == l.matched /\ l.puts = 1 /\ l.netmask # <<0, 0, 0, 0>>

\* C9: in the builder stage a failed allocation makes ssdp_help return DROP
\* with the allocation diagnostic and nothing registered, and nothing else
\* makes the stage return DROP: once the allocation succeeds the verdict is
\* ACCEPT, whatever the engine answers to the registration.
C9_AllocFailureOnlyDrop ==
    \A p \in Ctx : LET l == cpu[p] IN
      (Returned(l) /\ BuilderEntered(l)) =>
        IF l.allocs = 0
        THEN /\ l.verdict = NF_DROP
             /\ l.log = <<WARN_ALLOC>>
             /\ l.expect = NULL /\ l.submitted = 0 /\ l.registered = 0
        ELSE /\ l.verdict = NF_ACCEPT
             /\ l.log = << >>
             /\ l.allocs = 1 /\ l.submitted = 1

C9_Witness ==
    \E p \in Ctx : LET l == cpu[p] IN
      /\ Returned(l) /\ BuilderEntered(l)
      /\ l.allocs = 0 /\ l.verdict = NF_DROP /\ l.log = <<WARN_ALLOC>>

(***************************************************************************)
(* C10                                                                     *)
(***************************************************************************)
\* the subnet resolver returned the failure value 0
ResolutionFailed(l) == Returned(l) /\ l.matched /\ l.netmask = <<0, 0, 0, 0>>

\* the interface's address configuration as the resolver found it
NoAddresses(l) == l.dev = NULL \/ in_dev.ifa_list = << >>

\* C10 as stated: a failed resolution prints the 'no device addresses'
\* diagnostic when the interface has no configured addresses, the 'address
\* not found' diagnostic when it has addresses of which none is the source
\* address, and every failure is one of these two.
C10_AsStated ==
    \A p \in Ctx : LET l == cpu[p] IN
      ResolutionFailed(l) =>
        /\ NoAddresses(l) => l.log = <<WARN_NO_ADDRESSES>>
        /\ (~NoAddresses(l) /\ LocalEntries(l.tuple.src.ip) = {})
             => l.log = <<WARN_NOT_ASSIGNED>>
        /\ NoAddresses(l) \/ LocalEntries(l.tuple.src.ip) = {}

\* C10 amended: a failed resolution prints exactly one diagnostic: 'no
\* device addresses' when the device has no in_device (in_dev_get returned
\* NULL), and 'address not found' in every other case: the address list is
\* empty, none of its entries is the source address, or the first entry that
\* is has the mask 0.0.0.0.  A resolution that succeeds prints none.
C10_OneDiagnosticPerFailure ==
    \A p \in Ctx : LET l == cpu[p] IN
      /\ ResolutionFailed(l) =>
           /\ l.log = (IF l.dev = NULL THEN <<WARN_NO_ADDRESSES>>
                                       ELSE <<WARN_NOT_ASSIGNED>>)
           /\ l.dev # NULL =>
                \/ in_dev.ifa_list = << >>
                \/ LocalEntries(l.tuple.src.ip) = {}
                \/ FirstLocalEntry(l.tuple.src.ip).ifa_mask = <<0, 0, 0, 0>>
      /\ (Returned(l) /\ BuilderEntered(l)) =>
           (\A k \in 1..Len(l.log) : l.log[k] \notin {WARN_NO_ADDRESSES, WARN_NOT_ASSIGNED})

\* the interface has an in_device whose address list is empty
C10_Witness ==
    \E p \in Ctx : LET l == cpu[p] IN
      /\ ResolutionFailed(l) /\ l.dev # NULL
      /\ in_dev.ifa_list = << >>
      /\ l.log = <<WARN_NOT_ASSIGNED>> /\ l.verdict = NF_DROP

(***************************************************************************)
(* C11                                                                     *)
(***************************************************************************)
\* the statements of the four stages
ClassifierPcs == {"classify"}
MatcherPcs == {"header_pointer", "memcmp"}
ResolverPcs == {"in_dev_get", "ifa_list", "loop", "check", "in_dev_put", "netmask"}
BuilderPcs == {"alloc", "build", "related", "expect_put"}

\* the context has asked for the interface's address configuration
ResolverCalled(l) ==
    \/ l.pc \in (ResolverPcs \ {"in_dev_get"}) \cup BuilderPcs
    \/ l.gets > 0 \/ l.puts > 0
    \/ \E k \in 1..Len(l.log) : l.log[k] \in {WARN_NO_ADDRESSES, WARN_NOT_ASSIGNED}

\* C11: within one invocation the stages run in the order classifier,
\* payload matcher, subnet resolver, expectation builder: the payload is
\* read only for a packet sent to the group, the interface's address
\* configuration is acquired only after the destination test and the
\* "M-SEARCH" prefix test have both passed, an expectation is allocated only
\* after the resolver returned a non-zero mask (and released its reference),
\* and it is submitted to the engine only after the allocation succeeded.
C11_StagesInOrder ==
    \A p \in Ctx : LET l == cpu[p] IN
      Handled(l) =>
        /\ (l.pc \in MatcherPcs \/ l.bytes_read > 0 \/ l.udpdata # NULL) => ToGroup(l)
        /\ (l.pc \in ResolverPcs \/ ResolverCalled(l)) =>
             (ToGroup(l) /\ BeginsMSearch(l) /\ l.matched /\ l.bytes_read = 8)
        /\ (l.pc \in BuilderPcs \/ l.allocs > 0 \/ l.expect # NULL) =>
             /\ ResolverCalled(l) /\ l.matched
             /\ l.netmask # <<0, 0, 0, 0>>
             /\ l.gets = 1 /\ l.puts = 1
        /\ (l.pc \in {"build", "related", "expect_put"} \/ l.submitted > 0) =>
             (l.allocs = 1 /\ l.expect # NULL)
        /\ l.registered <= l.submitted /\ l.submitted <= l.allocs
        /\ l.exp_puts <= l.submitted

\* an invocation that went through the four stages
C11_Witness ==
    \E p \in Ctx : LET l == cpu[p] IN
      /\ Returned(l) /\ WellFormed(l)
      /\ l.matched /\ l.gets = 1 /\ l.puts = 1
      /\ l.allocs = 1 /\ l.submitted = 1 /\ l.registered = 1
      /\ l.verdict = NF_ACCEPT

(***************************************************************************)
(* C12                                                                     *)
(***************************************************************************)
\* the inputs of an invocation: destination address, payload, source
\* address, the interface's address configuration as in_dev_get found it,
\* and whether the allocation of the expectation failed
InputsOf(l) ==
    <<l.tuple.dst.ip, l.skb.payload, l.tuple.src.ip,
      IF l.matched /\ l.dev # NULL THEN in_dev.ifa_list ELSE << >>,
      l.matched /\ l.dev # NULL,
      \E k \in 1..Len(l.log) : l.log[k] = WARN_ALLOC>>

\* the mask the interface's address list holds for address a, 0.0.0.0 if none
MaskFor(list, a) ==
    LET hits == { i \in 1..Len(list) : list[i].ifa_local = a }
    IN  IF hits = {} THEN <<0, 0, 0, 0>>
        ELSE list[CHOOSE i \in hits : \A j \in hits : i <= j].ifa_mask

\* the verdict as a function of the inputs alone
VerdictOf(in) ==
    IF in[1] # MulticastGroup THEN "NF_ACCEPT"
    ELSE IF Len(in[2]) < 8 \/ SubSeq(in[2], 1, 8) # MSearchBytes THEN "NF_ACCEPT"
    ELSE IF ~in[5] THEN "NF_DROP"
    ELSE IF MaskFor(in[4], in[3]) = <<0, 0, 0, 0>> THEN "NF_DROP"
    ELSE IF in[6] THEN "NF_DROP"
    ELSE "NF_ACCEPT"

\* C12: the verdict of ssdp_help is a function of the packet's destination
\* address, payload and source address, the interface's address
\* configuration and the allocation outcome alone: in every reachable
\* state, whatever was processed before and whatever the expectation table
\* holds or answers, the verdict returned is the one this function gives,
\* and two invocations that agree on the inputs agree on the verdict.
C12_VerdictFunctionOfInputs ==
    /\ \A p \in Ctx : Returned(cpu[p]) => cpu[p].verdict = VerdictOf(InputsOf(cpu[p]))
    /\ \A p, q \in Ctx :
         (Returned(cpu[p]) /\ Returned(cpu[q]) /\ InputsOf(cpu[p]) = InputsOf(cpu[q]))
           => cpu[p].verdict = cpu[q].verdict

\* a query accepted although its flow already had a live expectation and
\* the engine refused the new one
C12_Witness ==
    \E p \in Ctx : LET l == cpu[p] IN
      /\ Returned(l) /\ WellFormed(l)
      /\ l.live_before = 1 /\ l.submitted = 1 /\ l.registered = 0
      /\ expect_table[l.ct.id] # << >>
      /\ l.verdict = NF_ACCEPT

(***************************************************************************)
(* C13                                                                     *)
(***************************************************************************)
\* C13 as stated: when the interface has the source address S configured
\* with mask 0.0.0.0, a matched query from S is dropped; and no registered
\* expectation has an all-zero source-address mask.
C13_AsStated ==
    /\ \A p \in Ctx : LET l == cpu[p] IN
         (/\ Returned(l) /\ l.matched /\ l.dev # NULL
          /\ \E i \in LocalEntries(l.tuple.src.ip) :
                in_dev.ifa_list[i].ifa_mask = <<0, 0, 0, 0>>) =>
           l.verdict = NF_DROP
    /\ \A e \in Registered : e.mask.src.ip # <<0, 0, 0, 0>>

\* C13 amended: when the first entry of the interface's list whose local
\* address is the source address S has mask 0.0.0.0, a matched query from S
\* is dropped as a failed resolution, with the 'address not found'
\* diagnostic and no expectation allocated; and no expectation built or
\* registered has an all-zero source-address mask.
C13_ZeroMaskIsFailure ==
    /\ \A p \in Ctx : LET l == cpu[p] IN
         (/\ Returned(l) /\ l.matched /\ l.dev # NULL
          /\ LocalEntries(l.tuple.src.ip) # {}
          /\ FirstLocalEntry(l.tuple.src.ip).ifa_mask = <<0, 0, 0, 0>>) =>
           /\ l.verdict = NF_DROP
           /\ l.log = <<WARN_NOT_ASSIGNED>>
           /\ l.allocs = 0 /\ l.submitted = 0
    /\ \A p \in Ctx : cpu[p].pc \in BuilderPcs => cpu[p].netmask # <<0, 0, 0, 0>>
    /\ \A e \in Built : e.mask.src.ip # <<0, 0, 0, 0>>

\* the only entry for the source address has mask 0.0.0.0
C13_Witness ==
    \E p \in Ctx : LET l == cpu[p] IN
      /\ Returned(l) /\ l.matched /\ l.dev # NULL
      /\ l.tuple.src.ip = <<192, 168, 1, 50>>
      /\ in_dev.ifa_list = <<[ifa_local |-> <<192, 168, 1, 50>>,
                              ifa_mask |-> <<0, 0, 0, 0>>]>>
      /\ l.verdict = NF_DROP /\ l.allocs = 0

(***************************************************************************)
(* C14                                                                     *)
(***************************************************************************)
\* the statements of ssdp_src_netmask that read the address list
IterationPcs == {"ifa_list", "loop"}

\* C14: under every interleaving of concurrent invocations on different
\* flows with the address-configuration subsystem dropping its own
\* reference, the address list is read only by a context that holds a
\* reference, hence only while the count is at least one and the in_device
\* is not freed; the count is the subsystem's reference plus one per
\* context between in_dev_get and in_dev_put; and once every invocation has
\* returned the invocations have added nothing to it: it is the
\* subsystem's reference alone.
C14_NoIterationAfterRelease ==
    /\ \A p \in Ctx : LET l == cpu[p] IN
         /\ l.stray_reads = 0
         /\ l.pc \in IterationPcs =>
              (holds_in_dev(l) /\ in_dev.refcnt >= 1 /\ ~in_dev.freed)
         /\ l.puts <= l.gets /\ l.gets <= 1
    /\ in_dev.refcnt =
         (IF ip_ptr # NULL THEN 1 ELSE 0)
           + Cardinality({ p \in Ctx : cpu[p].pc \in {"ifa_list", "loop", "check", "in_dev_put"} })
    /\ (\A p \in Ctx : cpu[p].pc = "idle") =>
         in_dev.refcnt = (IF ip_ptr # NULL THEN 1 ELSE 0)

\* two invocations on different flows read the list at the same time after
\* the subsystem has dropped its reference
C14_Witness ==
    \E p, q \in Ctx :
      /\ p # q
      /\ cpu[p].pc = "loop" /\ cpu[q].pc = "loop"
      /\ cpu[p].ct.id # cpu[q].ct.id
      /\ ip_ptr = NULL /\ in_dev.refcnt = 2 /\ ~in_dev.freed

(***************************************************************************)
(* C15                                                                     *)
(***************************************************************************)
\* the invocation of context p has returned NF_DROP
Dropped(l) == Returned(l) /\ l.verdict = "NF_DROP"

\* C15: an invocation that returns DROP leaves the engine's expectation
\* table as it was: the only statement of ssdp_help that changes the table
\* is the call of nf_ct_expect_related, every other step of a context leaves
\* every expectation in place and unaltered, and an invocation that returns
\* DROP never made that call; after it has returned it holds no reference
\* to the in_device and no expectation.
C15_DropLeavesNoTrace ==
    /\ [](\A p \in Ctx : LET l == cpu[p] IN
            Dropped(l) =>
              /\ l.submitted = 0 /\ l.registered = 0
              /\ l.gets = l.puts
              /\ l.allocs = 0 /\ l.exp_puts = 0 /\ l.expect = NULL)
    /\ [][\A p \in Ctx :
            (cpu'[p] # cpu[p] /\ (cpu[p].pc # "related" \/ Dropped(cpu'[p])))
              => expect_table' = expect_table]_vars

\* a query dropped for a failed allocation while the expectation of an
\* earlier query of its flow is live
C15_Witness ==
    \E p \in Ctx : LET l == cpu[p] IN
      /\ Dropped(l) /\ l.matched
      /\ l.log = <<WARN_ALLOC>>
      /\ l.gets = 1 /\ l.puts = 1
      /\ Len(expect_table[l.ct.id]) = 1
      /\ expect_table[l.ct.id][1].master = l.ct.id

(***************************************************************************)
(* C16                                                                     *)
(***************************************************************************)
\* C16: once an expectation has been allocated, ssdp_help submits it once,
\* releases its own reference to it exactly once and returns ACCEPT, whether
\* the engine registers the expectation or refuses it; a refused
\* registration leaves the table as it was, and the reference is held from
\* the allocation until the release and not afterwards.
C16_AcceptAndPutOnce ==
    /\ [](\A p \in Ctx : LET l == cpu[p] IN
            /\ (Returned(l) /\ l.allocs >= 1) =>
                 /\ l.verdict = "NF_ACCEPT"
                 /\ l.allocs = 1 /\ l.submitted = 1 /\ l.exp_puts = 1
                 /\ l.registered \in {0, 1}
            /\ l.pc \in {"build", "related", "expect_put"} =>
                 (l.allocs = 1 /\ l.exp_puts = 0)
            /\ l.exp_puts <= l.allocs)
    /\ [][\A p \in Ctx :
            (cpu[p].pc = "related" /\ cpu'[p] # cpu[p]) =>
              /\ cpu'[p].pc = "expect_put"
              /\ cpu'[p].registered = 0 => expect_table' = expect_table
              /\ cpu'[p].registered = 1 =>
                   /\ expect_table'[cpu[p].ct.id] # << >>
                   /\ expect_table'[cpu[p].ct.id][Len(expect_table'[cpu[p].ct.id])]
                        = cpu[p].expect]_vars

\* the engine refused the only expectation of the flow: accepted, released,
\* nothing in the table
C16_Witness ==
    \E p \in Ctx : LET l == cpu[p] IN
      /\ Returned(l) /\ l.allocs = 1
      /\ l.submitted = 1 /\ l.registered = 0 /\ l.live_before = 0
      /\ l.exp_puts = 1
      /\ expect_table[l.ct.id] = << >>
      /\ l.verdict = NF_ACCEPT

(***************************************************************************)
(* C17                                                                     *)
(***************************************************************************)
\* C17 as stated: the destination address and port of every registered
\* expectation are the source address and port of the original-direction
\* tuple of the query, and its protocol is UDP.
C17_AsStated ==
    \A e \in Registered : LET f == FlowOf(e.master) IN
      /\ e.tuple.dst.ip = f.orig.src.ip
      /\ e.tuple.dst.port = f.orig.src.port
      /\ e.tuple.dst.protonum = "IPPROTO_UDP"

\* C17 amended: the destination address, destination port and protocol of
\* every expectation built or registered are those of the flow's
\* reply-direction tuple, protocol UDP: the source address and port of the
\* original-direction tuple when the reply direction is the reverse of the
\* original (no address translation), the translated address and port
\* otherwise; and no step of the helper changes them after the copy.
C17_DestinationOfReplyTuple ==
    /\ [](\A e \in Built : LET f == FlowOf(e.master) IN
            /\ e.tuple.dst.ip = f.reply.dst.ip
            /\ e.tuple.dst.port = f.reply.dst.port
            /\ e.tuple.dst.protonum = "IPPROTO_UDP"
            /\ f.reply = Invert(f.orig) =>
                 (e.tuple.dst.ip = f.orig.src.ip /\ e.tuple.dst.port = f.orig.src.port))
    /\ [][\A p \in Ctx :
            (cpu[p].pc \in {"related", "expect_put"} /\ cpu'[p] # cpu[p]) =>
              /\ cpu'[p].expect.tuple.dst = cpu[p].expect.tuple.dst
              /\ \A m \in Masters : \A i \in 1..Len(expect_table'[m]) :
                   expect_table'[m][i].tuple.dst = FlowOf(m).reply.dst]_vars

\* the expectations of a plain flow and of a translated flow of the same
\* requester, both registered
C17_Witness ==
    /\ \E e \in Registered :
         /\ e.master = "ctA"
         /\ e.tuple.dst.ip = <<192, 168, 1, 50>>
         /\ e.tuple.dst.port = FlowOf("ctA").orig.src.port
    /\ \E e \in Registered :
         /\ e.master = "ctN"
         /\ FlowOf("ctN").orig.src.ip = <<192, 168, 1, 50>>
         /\ e.tuple.dst.ip = <<192, 168, 1, 200>>
         /\ e.tuple.dst.port # FlowOf("ctN").orig.src.port

(***************************************************************************)
(* C18                                                                     *)
(***************************************************************************)
\* the context has left the loop of ssdp_src_netmask
LoopLeft(l) ==
    /\ l.matched /\ l.dev # NULL
    /\ l.pc \in {"check", "in_dev_put", "netmask"} \cup BuilderPcs \/ Returned(l)

\* C18: ssdp_src_netmask returns the mask of the first entry, in list
\* order, whose local address is the query's source address, and reads no
\* entry after it: the loop stops at that entry, so with several entries of
\* the same address the first decides, and a first entry with mask 0.0.0.0
\* gives the failure value whatever the later entries hold.  Without such
\* an entry the loop runs off the list and the result is 0.0.0.0.
C18_FirstEntryDecides ==
    \A p \in Ctx : LET l == cpu[p]
                        S == l.tuple.src.ip
                    IN
      /\ (Handled(l) /\ l.pc = "loop" /\ l.addr # 0) =>
           /\ l.addr \in 1..Len(in_dev.ifa_list)
           /\ \A i \in LocalEntries(S) : l.addr <= i
           /\ l.ret = <<0, 0, 0, 0>>
      /\ (Handled(l) /\ LoopLeft(l)) =>
           IF LocalEntries(S) = {}
           THEN l.addr = 0 /\ l.ret = <<0, 0, 0, 0>>
           ELSE /\ in_dev.ifa_list[l.addr] = FirstLocalEntry(S)
                /\ \A i \in LocalEntries(S) : l.addr <= i
                /\ l.ret = FirstLocalEntry(S).ifa_mask
      /\ (Handled(l) /\ LoopLeft(l) /\ l.pc # "check" /\ l.pc # "in_dev_put") =>
           l.netmask = l.ret

\* the first entry for the address has mask 0.0.0.0, a later one a
\* non-zero mask: failure
C18_Witness ==
    \E p \in Ctx : LET l == cpu[p] IN
      /\ Returned(l) /\ l.matched /\ l.dev # NULL
      /\ l.tuple.src.ip = <<192, 168, 1, 50>>
      /\ in_dev.ifa_list = <<[ifa_local |-> <<192, 168, 1, 50>>,
                              ifa_mask |-> <<0, 0, 0, 0>>],
                             [ifa_local |-> <<192, 168, 1, 50>>,
                              ifa_mask |-> <<255, 255, 255, 0>>]>>
      /\ l.addr = 1 /\ l.netmask = <<0, 0, 0, 0>>
      /\ l.verdict = NF_DROP

====
